---- MODULE Spec2Model ----
(***************************************************************************)
(* Model of the INA229 worker (src/unnamed/part_000): the acknowledgment-  *)
(* gated command queue and session handlers, the CRLF line reader          *)
(* (createLineReader) and the bulk telemetry frame decoder (readUsbLoop).  *)
(*                                                                         *)
(* The specifications share the variables:                                 *)
(*   Spec          the worker's message handlers and its two read loops;   *)
(*   SpecLive      the same in a connected session that stays up, with     *)
(*                 the device acknowledging what it receives (fairness);   *)
(*   SpecFramer    createLineReader/readLine over a chunked text stream;   *)
(*   SpecDecoder   the frame scan of readUsbLoop over one record;          *)
(*   SpecResync    the frame scan over a damaged record and a good one;    *)
(*   SpecTruncated the frame scan over records followed by a cut one.      *)
(* The worker is single threaded: a handler runs without interleaving up   *)
(* to the point where it has made all its state changes, so each handler   *)
(* is one action.  handleConnect awaits the port and device acquisition;   *)
(* the model takes the acquisition as one step whose outcome the           *)
(* environment chooses.                                                    *)
(***************************************************************************)
EXTENDS Integers, Sequences, FiniteSets, TLC

\* ------------------------------------------------------------------ bounds
\* Number of commands the host enqueues in one run.
MaxCmds == 3
\* Number of readUsbLoop tasks that may be awaiting a transfer at once.
MaxUsbLoops == 2
\* Length of the text stream fed to the line reader.
MaxStreamLen == 5
\* readLine calls made after the reader has reported end of stream.
MaxEofReads == 2
\* Largest register width (bytes) of the frames fed to the decoder.
MaxWidth == 5

VARIABLES
    \* part_000 lines 3-10: the worker's module-level state
    serialPort,     \* "none" (undefined/null) | "closed" (set, not open) | "open"
    serialReader,   \* TRUE when serialReader holds the readLine closure
    serialWriter,   \* TRUE when serialWriter holds a writer
    usbDevice,      \* "none" | "closed" | "open"
    stopUsbLoop,
    queue,
    state,
    ackd,
    \* tasks
    serialLoop,     \* readSerialLoop: "none" | "running" | "ended"
    usbLoops,       \* number of readUsbLoop tasks awaiting transferIn
    stopAsked,      \* how many of them were awaiting it when stopUsbLoop was
                    \* last set true, and are still awaiting that transfer
    pending,        \* TRUE while a serialWriter.write that readSerialLoop's
                    \* handleQueue() started has not settled
    \* observation of the worker's outputs and inputs
    enqueued,       \* every command writeCommand pushed, in order
    sent,           \* every command handed to serialWriter.write, in order
    posts,          \* what the most recent handler passed to self.postMessage
    hq,             \* the handleQueue call of the most recent handler
    lastMsg,        \* the event the most recent handler handled
    \* createLineReader
    input,          \* the whole text of the stream (fixed)
    chunks,         \* the chunks reader.read() delivers, in order (fixed)
    nread,          \* how many of them it has delivered
    buffer,         \* readLine's closure variable
    results,        \* what successive readLine calls returned
    \* frame decoder
    dataView,       \* result.data of one transfer
    parts,          \* the records and fragments dataView is made of, in order
    updates,        \* the updates array after the scan
    decoded         \* TRUE once the scan has run

sessionVars == <<serialPort, serialReader, serialWriter, usbDevice, stopUsbLoop,
                 queue, state, ackd, serialLoop, usbLoops, stopAsked, pending,
                 enqueued, sent, posts, hq, lastMsg>>
framerVars == <<input, chunks, nread, buffer, results>>
decoderVars == <<dataView, parts, updates, decoded>>
vars == <<sessionVars, framerVars, decoderVars>>

\* ------------------------------------------------------- bulk frame decoder
\* A JS Number n is held as [hi, lo] with n = hi * 2^24 + lo, 0 <= lo < 2^24,
\* so that 32-bit and wider values stay inside TLC's integers.
TwoPow8 == 256
TwoPow16 == TwoPow8 * TwoPow8
TwoPow24 == TwoPow16 * TwoPow8
TwoPow23 == TwoPow24 \div 2

Num(hi, lo) == [hi |-> hi, lo |-> lo]

\* Int32 value r as a Number.
FromInt32(r) == Num(r \div TwoPow24, r % TwoPow24)

\* dataView.getUint8(offset): offsets are 0-based.
getUint8(dv, offset) == dv[offset + 1]

\* (rawValue << 8) | byte on Numbers: both operators work on ToInt32 of
\* their operands and give an Int32.
ShiftOr32(rawValue, byte) ==
    LET low == rawValue % TwoPow24
    IN  IF low >= TwoPow23
        THEN (low - TwoPow24) * TwoPow8 + byte
        ELSE low * TwoPow8 + byte

\* (rawValue << 8n) | BigInt(byte) on BigInts: no truncation.
ShiftOrBig(rawValue, byte) ==
    Num(rawValue.hi * TwoPow8 + (rawValue.lo \div TwoPow16),
        (rawValue.lo % TwoPow16) * TwoPow8 + byte)

RECURSIVE accumulate32(_, _, _, _, _)
accumulate32(dv, offset, registerSize, i, rawValue) ==
    IF i < registerSize
    THEN accumulate32(dv, offset, registerSize, i + 1,
                      ShiftOr32(rawValue, getUint8(dv, offset + 4 + i)))
    ELSE rawValue

RECURSIVE accumulateBig(_, _, _, _, _)
accumulateBig(dv, offset, registerSize, i, rawValue) ==
    IF i < registerSize
    THEN accumulateBig(dv, offset, registerSize, i + 1,
                       ShiftOrBig(rawValue, getUint8(dv, offset + 4 + i)))
    ELSE rawValue

\* The value assembly of one record.  Number(rawValue) of the BigInt path is
\* exact below 2^53, which covers every width up to 6.
assembleValue(dv, offset, registerSize) ==
    IF registerSize > 4
    THEN accumulateBig(dv, offset, registerSize, 0, Num(0, 0))
    ELSE FromInt32(accumulate32(dv, offset, registerSize, 0, 0))

\* scanFrames stepping over a whole header (offset += 4) on a byte that is
\* not the sentinel.
RECURSIVE scanFrames_skipHeader(_, _, _)
scanFrames_skipHeader(dv, offset, ups) ==
    IF ~(offset < Len(dv)) THEN ups
    ELSE IF getUint8(dv, offset) # 0 THEN scanFrames_skipHeader(dv, offset + 4, ups)
    ELSE IF offset + 4 > Len(dv) THEN ups
    ELSE LET address == getUint8(dv, offset + 2)
             registerSize == getUint8(dv, offset + 3)
         IN  IF offset + 4 + registerSize > Len(dv) THEN ups
             ELSE scanFrames_skipHeader(dv, offset + 4 + registerSize,
                             Append(ups, [address |-> address,
                                          rawValue |-> assembleValue(dv, offset, registerSize)]))

\* scanFrames resynchronising (offset++) instead of stopping when the declared
\* width exceeds the bytes left.
RECURSIVE scanFrames_resyncOnTruncation(_, _, _)
scanFrames_resyncOnTruncation(dv, offset, ups) ==
    IF ~(offset < Len(dv)) THEN ups
    ELSE IF getUint8(dv, offset) # 0 THEN scanFrames_resyncOnTruncation(dv, offset + 1, ups)
    ELSE IF offset + 4 > Len(dv) THEN ups
    ELSE LET address == getUint8(dv, offset + 2)
             registerSize == getUint8(dv, offset + 3)
         IN  IF offset + 4 + registerSize > Len(dv)
             THEN scanFrames_resyncOnTruncation(dv, offset + 1, ups)
             ELSE scanFrames_resyncOnTruncation(dv, offset + 4 + registerSize,
                             Append(ups, [address |-> address,
                                          rawValue |-> assembleValue(dv, offset, registerSize)]))

RECURSIVE scanFrames(_, _, _)
scanFrames(dv, offset, ups) ==
    IF ~(offset < Len(dv)) THEN ups
    ELSE IF getUint8(dv, offset) # 0 THEN scanFrames(dv, offset + 1, ups)
    ELSE IF offset + 4 > Len(dv) THEN ups
    ELSE LET address == getUint8(dv, offset + 2)
             registerSize == getUint8(dv, offset + 3)
         IN  IF offset + 4 + registerSize > Len(dv) THEN ups
             ELSE scanFrames(dv, offset + 4 + registerSize,
                             Append(ups, [address |-> address,
                                          rawValue |-> assembleValue(dv, offset, registerSize)]))

decodeTransfer(dv) == scanFrames(dv, 0, <<>>)

\* ------------------------------------------------------------ command queue
Sendable(st) == st = "idle" \/ st = "collecting"

\* handleQueue without the ackd test.
handleQueue_ignoreAck(writer, st, ack, q) ==
    IF writer /\ Sendable(st) /\ Len(q) > 0
    THEN [queue |-> Tail(q), ackd |-> FALSE, written |-> <<Head(q)>>,
          posts |-> << <<"log", "out", Head(q).text>> >>]
    ELSE [queue |-> q, ackd |-> ack, written |-> <<>>, posts |-> <<>>]

\* handleQueue without the state test.
handleQueue_ignoreState(writer, st, ack, q) ==
    IF writer /\ ack /\ Len(q) > 0
    THEN [queue |-> Tail(q), ackd |-> FALSE, written |-> <<Head(q)>>,
          posts |-> << <<"log", "out", Head(q).text>> >>]
    ELSE [queue |-> q, ackd |-> ack, written |-> <<>>, posts |-> <<>>]

\* handleQueue taking the newest command (queue.pop()) instead of the oldest.
handleQueue_lifo(writer, st, ack, q) ==
    IF writer /\ Sendable(st) /\ ack /\ Len(q) > 0
    THEN [queue |-> SubSeq(q, 1, Len(q) - 1), ackd |-> FALSE,
          written |-> <<q[Len(q)]>>,
          posts |-> << <<"log", "out", q[Len(q)].text>> >>]
    ELSE [queue |-> q, ackd |-> ack, written |-> <<>>, posts |-> <<>>]

\* handleQueue, given the values of serialWriter, state, ackd and queue at the
\* call: the queue and ackd it leaves, what it hands to serialWriter.write and
\* what it posts.
handleQueue(writer, st, ack, q) ==
    IF ~writer
    THEN [queue |-> q, ackd |-> ack, written |-> <<>>, posts |-> <<>>]
    ELSE IF Sendable(st) /\ ack
         THEN IF Len(q) > 0
              THEN [queue |-> Tail(q), ackd |-> FALSE, written |-> <<Head(q)>>,
                    posts |-> << <<"log", "out", Head(q).text>> >>]
              ELSE [queue |-> q, ackd |-> ack, written |-> <<>>, posts |-> <<>>]
         ELSE [queue |-> q, ackd |-> ack, written |-> <<>>, posts |-> <<>>]

\* What the observation variable hq records of a handleQueue call.
QueueCall(writer, st, ack, q, r) ==
    [called |-> TRUE, writer |-> writer, state |-> st, ackd |-> ack,
     queue |-> q, sentBefore |-> Len(sent), did |-> r.written # <<>>]

NoQueueCall ==
    [called |-> FALSE, writer |-> FALSE, state |-> "idle", ackd |-> TRUE,
     queue |-> <<>>, sentBefore |-> 0, did |-> FALSE]

\* writeCommand returning before the push when no writer is attached.
writeCommand_dropWithoutWriter(writer, st, ack, q, command) ==
    IF ~writer
    THEN [queue |-> q, ackd |-> ack, written |-> <<>>, posts |-> <<>>]
    ELSE [queue |-> Tail(Append(q, command)), ackd |-> FALSE,
          written |-> <<Head(Append(q, command))>>,
          posts |-> << <<"log", "out", Head(Append(q, command)).text>> >>]

\* writeCommand handing the command straight to the writer, without the
\* queue and the ackd test (as the unqueued worker does).
writeCommand_direct(writer, st, ack, q, command) ==
    IF ~writer
    THEN [queue |-> q, ackd |-> ack, written |-> <<>>, posts |-> <<>>]
    ELSE [queue |-> q, ackd |-> ack, written |-> <<command>>,
          posts |-> << <<"log", "out", command.text>> >>]

\* writeCommand(command): push, then handleQueue.
writeCommand(writer, st, ack, q, command) ==
    handleQueue(writer, st, ack, Append(q, command))

\* The command a handler enqueues: its text and its enqueue ordinal.
Command(text) == [id |-> Len(enqueued) + 1, text |-> text]

\* The part every enqueueing handler shares: writeCommand(text), with `after`
\* what the handler posts once writeCommand has returned.
Enqueue(text, after) ==
    LET c == Command(text)
        r == writeCommand(serialWriter, state, ackd, queue, c)
    IN  /\ Len(enqueued) < MaxCmds
        /\ enqueued' = Append(enqueued, c)
        /\ queue' = r.queue
        /\ ackd' = r.ackd
        /\ sent' = sent \o r.written
        /\ UNCHANGED pending
        /\ posts' = r.posts \o after
        /\ hq' = QueueCall(serialWriter, state, ackd, Append(queue, c), r)

\* onmessage 'write'
Write ==
    /\ Enqueue("cmd", <<>>)
    /\ lastMsg' = "write"
    /\ UNCHANGED <<framerVars, decoderVars>>
    /\ UNCHANGED <<serialPort, serialReader, serialWriter, usbDevice, stopUsbLoop,
                   state, serialLoop, usbLoops, stopAsked>>

\* onmessage 'start-stream': writeCommand(command), then readUsbLoop() up to
\* its first transferIn.  With usbDevice undefined the call throws inside the
\* loop's try, is logged (stopUsbLoop is false) and the loop ends at once.
StartStream ==
    /\ Enqueue("start", IF usbDevice = "none"
                        THEN << <<"log", "system", "Worker USB read error">> >>
                        ELSE <<>>)
    /\ usbDevice # "none" => usbLoops < MaxUsbLoops
    /\ stopUsbLoop' = FALSE
    /\ usbLoops' = IF usbDevice = "none" THEN usbLoops ELSE usbLoops + 1
    /\ lastMsg' = "start-stream"
    /\ UNCHANGED <<framerVars, decoderVars>>
    /\ UNCHANGED <<serialPort, serialReader, serialWriter, usbDevice, state,
                   serialLoop, stopAsked>>

\* onmessage 'stop-stream'
StopStream ==
    /\ Enqueue("stop 1", <<>>)
    /\ stopUsbLoop' = TRUE
    /\ stopAsked' = usbLoops
    /\ lastMsg' = "stop-stream"
    /\ UNCHANGED <<framerVars, decoderVars>>
    /\ UNCHANGED <<serialPort, serialReader, serialWriter, usbDevice, state,
                   serialLoop, usbLoops>>

\* ------------------------------------------------------- connect, disconnect
\* What the environment lets handleConnect reach: no port granted, open()
\* rejecting, no device granted, usbDevice.open() rejecting,
\* selectConfiguration/claimInterface rejecting, or all of it succeeding.
ConnectOutcomes == {"noPort", "openFail", "noUsb", "usbOpenFail", "claimFail", "ok"}

ConnectError ==
    << <<"log", "system", "Worker connect error">>, <<"status", "Error">> >>

\* handleConnect.  serialPort.open() rejects (InvalidStateError) on a port
\* that is already open, whatever the environment would otherwise allow.
handleConnect(outcome) ==
    /\ lastMsg' = "connect"
    /\ UNCHANGED <<framerVars, decoderVars>>
    /\ hq' = NoQueueCall
    /\ UNCHANGED <<stopUsbLoop, queue, state, ackd, usbLoops, stopAsked, pending,
                   enqueued, sent>>
    /\ IF outcome = "noPort"
       THEN /\ posts' = ConnectError
            /\ UNCHANGED <<serialPort, serialReader, serialWriter, usbDevice, serialLoop>>
       ELSE IF serialPort = "open" \/ outcome = "openFail"
       THEN /\ serialPort' = IF serialPort = "open" THEN "open" ELSE "closed"
            /\ posts' = ConnectError
            /\ UNCHANGED <<serialReader, serialWriter, usbDevice, serialLoop>>
       ELSE /\ serialPort' = "open"
            /\ serialWriter' = TRUE
            /\ serialReader' = TRUE
            /\ IF outcome = "noUsb"
               THEN /\ posts' = ConnectError
                    /\ UNCHANGED <<usbDevice, serialLoop>>
               ELSE IF outcome = "usbOpenFail"
               THEN /\ usbDevice' = "closed"
                    /\ posts' = ConnectError
                    /\ UNCHANGED serialLoop
               ELSE IF outcome = "claimFail"
               THEN /\ usbDevice' = "open"
                    /\ posts' = ConnectError
                    /\ UNCHANGED serialLoop
               ELSE /\ usbDevice' = "open"
                    /\ posts' = << <<"status", "Connected">> >>
                    /\ serialLoop' = "running"

Connect == \E outcome \in ConnectOutcomes : handleConnect(outcome)

\* serialReader is the readLine closure createLineReader returns: a function,
\* with no cancel or releaseLock method.
ReaderHasCancel == FALSE

\* handleDisconnect.  With serialReader set, serialReader.cancel() throws a
\* TypeError and the handler ends there, after stopUsbLoop = true.
handleDisconnect ==
    /\ lastMsg' = "disconnect"
    /\ UNCHANGED <<framerVars, decoderVars>>
    /\ hq' = NoQueueCall
    /\ stopUsbLoop' = TRUE
    /\ stopAsked' = usbLoops
    /\ UNCHANGED <<queue, state, ackd, usbLoops, pending, enqueued, sent>>
    /\ IF serialReader /\ ~ReaderHasCancel
       THEN /\ posts' = <<>>
            /\ UNCHANGED <<serialPort, serialReader, serialWriter, usbDevice, serialLoop>>
       ELSE /\ serialReader' = FALSE
            /\ serialLoop' = IF serialReader /\ serialLoop = "running"
                             THEN "ended" ELSE serialLoop
            /\ serialWriter' = FALSE
            /\ serialPort' = IF serialPort = "open" THEN "none" ELSE serialPort
            /\ usbDevice' = IF usbDevice = "open" THEN "none" ELSE usbDevice
            /\ posts' = << <<"status", "Disconnected">> >>

Disconnect == handleDisconnect

\* ------------------------------------------------------------ readSerialLoop
States == {"idle", "collecting", "busy"}

\* A received line after JSON.parse: json is FALSE for a line that does not
\* parse; evm_state "" and register <<>> stand for an absent field.
NotJson == [json |-> FALSE, acknowledge |-> FALSE, evm_state |-> "", register |-> <<>>]
JsonLines ==
    [json : {TRUE}, acknowledge : BOOLEAN, evm_state : States \cup {""},
     register : {<<>>, <<3, 42>>}]
Lines == {NotJson} \cup JsonLines

\* The try block of one iteration applying only the first field the line
\* carries (an else-if chain).
applyLine_firstFieldOnly(line, ack, st) ==
    IF line.json /\ line.acknowledge
    THEN [ackd |-> TRUE, state |-> st, posts |-> <<>>]
    ELSE IF line.json /\ line.evm_state # ""
    THEN [ackd |-> ack, state |-> line.evm_state, posts |-> <<>>]
    ELSE [ackd |-> ack, state |-> st,
          posts |-> IF line.json /\ line.register # <<>>
                    THEN << <<"processed-register-data", line.register[1], line.register[2]>> >>
                    ELSE <<>>]

\* The try block of one iteration: JSON.parse and the three independent
\* field tests, given ackd and state before it.
applyLine(line, ack, st) ==
    [ackd |-> IF line.json /\ line.acknowledge THEN TRUE ELSE ack,
     state |-> IF line.json /\ line.evm_state # "" THEN line.evm_state ELSE st,
     posts |-> IF line.json /\ line.register # <<>>
               THEN << <<"processed-register-data", line.register[1], line.register[2]>> >>
               ELSE <<>>]

\* One iteration of readSerialLoop with a line: log it, apply its fields,
\* then handleQueue(), which is not awaited: the loop goes on to await the
\* next line with the write it started still pending.
receiveLine(line) ==
    LET a == applyLine(line, ackd, state)
        r == handleQueue(serialWriter, a.state, a.ackd, queue)
    IN  /\ serialLoop = "running"
        /\ state' = a.state
        /\ queue' = r.queue
        /\ ackd' = r.ackd
        /\ sent' = sent \o r.written
        /\ pending' = (pending \/ r.written # <<>>)
        /\ posts' = << <<"log", "in", line>> >> \o a.posts \o r.posts
        /\ hq' = QueueCall(serialWriter, a.state, a.ackd, queue, r)
        /\ lastMsg' = "line"
        /\ UNCHANGED <<framerVars, decoderVars>>
        /\ UNCHANGED <<serialPort, serialReader, serialWriter, usbDevice, stopUsbLoop,
                       serialLoop, usbLoops, stopAsked, enqueued>>

ReceiveLine == \E line \in Lines : receiveLine(line)

\* The last unsettled serialWriter.write of the read loop settles; handleQueue
\* has nothing after its await, so no state of the worker changes and nothing
\* is posted.
WriteSettled ==
    /\ pending
    /\ pending' = FALSE
    /\ UNCHANGED <<framerVars, decoderVars>>
    /\ UNCHANGED <<serialPort, serialReader, serialWriter, usbDevice, stopUsbLoop,
                   queue, state, ackd, serialLoop, usbLoops, stopAsked, enqueued, sent,
                   posts, hq, lastMsg>>

\* serialReader() returned null: the loop breaks.
SerialEnd ==
    /\ serialLoop = "running"
    /\ serialLoop' = "ended"
    /\ posts' = <<>>
    /\ hq' = NoQueueCall
    /\ lastMsg' = "eof"
    /\ UNCHANGED <<framerVars, decoderVars>>
    /\ UNCHANGED <<serialPort, serialReader, serialWriter, usbDevice, stopUsbLoop,
                   queue, state, ackd, usbLoops, stopAsked, pending, enqueued, sent>>

\* serialReader() rejected: the error is logged and the loop breaks.
SerialReadError ==
    /\ serialLoop = "running"
    /\ serialLoop' = "ended"
    /\ posts' = << <<"log", "system", "Worker serial read error">> >>
    /\ hq' = NoQueueCall
    /\ lastMsg' = "read-error"
    /\ UNCHANGED <<framerVars, decoderVars>>
    /\ UNCHANGED <<serialPort, serialReader, serialWriter, usbDevice, stopUsbLoop,
                   queue, state, ackd, usbLoops, stopAsked, pending, enqueued, sent>>

\* --------------------------------------------------------------- readUsbLoop
\* Transfers the device delivers in Spec: an empty one, the record of width 2
\* at address 5 with value 0x1234, and noise.
SampleTransfers == {<<>>, <<0, 0, 5, 2, 18, 52>>, <<1, 1>>}

\* The task whose transferIn settles is one of those that were awaiting it
\* when stopUsbLoop was last set, or one started since.
TaskSettles ==
    \E asked \in BOOLEAN :
        /\ IF asked THEN stopAsked > 0 ELSE usbLoops > stopAsked
        /\ stopAsked' = IF asked THEN stopAsked - 1 ELSE stopAsked

\* One readUsbLoop task's transferIn resolves: decode and post when the status
\* is ok, then test stopUsbLoop and either issue the next transfer or end.
UsbTransfer ==
    /\ usbLoops > 0
    /\ \E status \in {"ok", "stall"}, dv \in SampleTransfers :
        LET ups == decodeTransfer(dv)
        IN  posts' = IF status = "ok" /\ Len(ups) > 0
                     THEN << <<"processed-bulk-data", ups>> >>
                     ELSE <<>>
    /\ usbLoops' = IF stopUsbLoop THEN usbLoops - 1 ELSE usbLoops
    /\ TaskSettles
    /\ hq' = NoQueueCall
    /\ lastMsg' = "transfer"
    /\ UNCHANGED <<framerVars, decoderVars>>
    /\ UNCHANGED <<serialPort, serialReader, serialWriter, usbDevice, stopUsbLoop,
                   queue, state, ackd, serialLoop, pending, enqueued, sent>>

\* One task's transferIn rejects: logged unless stopUsbLoop, and the loop breaks.
UsbTransferError ==
    /\ usbLoops > 0
    /\ usbLoops' = usbLoops - 1
    /\ TaskSettles
    /\ posts' = IF ~stopUsbLoop
                THEN << <<"log", "system", "Worker USB read error">> >>
                ELSE <<>>
    /\ hq' = NoQueueCall
    /\ lastMsg' = "transfer-error"
    /\ UNCHANGED <<framerVars, decoderVars>>
    /\ UNCHANGED <<serialPort, serialReader, serialWriter, usbDevice, stopUsbLoop,
                   queue, state, ackd, serialLoop, pending, enqueued, sent>>

\* ---------------------------------------------------------- createLineReader
CR == "\r"
LF == "\n"
Chars == {"a", CR, LF}

\* buffer.indexOf('\r\n'): the 0-based index of the first CR LF, or -1.
indexOfCRLF(buf) ==
    LET hits == {i \in 0..(Len(buf) - 2) : buf[i + 1] = CR /\ buf[i + 2] = LF}
    IN  IF hits = {} THEN -1
        ELSE CHOOSE i \in hits : \A j \in hits : i <= j

\* What a readLine call returns, with the buffer it leaves and the number of
\* chunks the reader has delivered.
Returned(line, buf, n) == [null |-> FALSE, line |-> line, buffer |-> buf, delivered |-> n]
ReturnedNull(buf, n) == [null |-> TRUE, line |-> <<>>, buffer |-> buf, delivered |-> n]

\* extractLine dropping one character of the delimiter (slice(newlineIndex + 1)).
extractLine_keepLF(buf, newlineIndex, n) ==
    Returned(SubSeq(buf, 1, newlineIndex), SubSeq(buf, newlineIndex + 2, Len(buf)), n)

\* A line is present in the buffer: return it and drop it and its delimiter.
extractLine(buf, newlineIndex, n) ==
    Returned(SubSeq(buf, 1, newlineIndex), SubSeq(buf, newlineIndex + 3, Len(buf)), n)

\* endOfStream without clearing the buffer.
endOfStream_keepBuffer(buf, n) ==
    IF Len(buf) > 0 THEN Returned(buf, buf, n) ELSE ReturnedNull(buf, n)

\* reader.read() reported done.
endOfStream(buf, n) ==
    IF Len(buf) > 0 THEN Returned(buf, <<>>, n) ELSE ReturnedNull(buf, n)

\* One readLine call on buffer buf with chs the chunks of the stream, n of
\* them already delivered; the reader reports done once all are delivered.
RECURSIVE readLine(_, _, _)
readLine(buf, chs, n) ==
    LET newlineIndex == indexOfCRLF(buf)
    IN  IF newlineIndex # -1 THEN extractLine(buf, newlineIndex, n)
        ELSE IF n = Len(chs) THEN endOfStream(buf, n)
        ELSE readLine(buf \o chs[n + 1], chs, n + 1)

\* Texts of length up to MaxStreamLen.
Texts == UNION {[1..n -> Chars] : n \in 0..MaxStreamLen}

\* text cut into chunks after each position of cuts.
RECURSIVE ChunksOf(_, _, _)
ChunksOf(text, cuts, from) ==
    IF from > Len(text) THEN <<>>
    ELSE LET later == {c \in cuts : c >= from}
             to == IF later = {} THEN Len(text)
                   ELSE CHOOSE c \in later : \A d \in later : c <= d
         IN  <<SubSeq(text, from, to)>> \o ChunksOf(text, cuts, to + 1)

\* One readLine call, run to its return.
ReadLine ==
    LET r == readLine(buffer, chunks, nread)
    IN  /\ Len(SelectSeq(results, LAMBDA x : x.null)) < MaxEofReads
        /\ buffer' = r.buffer
        /\ nread' = r.delivered
        /\ results' = Append(results, [null |-> r.null, line |-> r.line])
        /\ UNCHANGED <<input, chunks>>
        /\ UNCHANGED <<sessionVars, decoderVars>>

\* One scan of a transfer's data.
DecodeTransfer ==
    /\ ~decoded
    /\ updates' = decodeTransfer(dataView)
    /\ decoded' = TRUE
    /\ UNCHANGED <<dataView, parts>>
    /\ UNCHANGED <<sessionVars, framerVars>>

\* ------------------------------------------------------------ specifications
InitSession ==
    /\ serialPort = "none"
    /\ serialReader = FALSE
    /\ serialWriter = FALSE
    /\ usbDevice = "none"
    /\ stopUsbLoop = FALSE
    /\ queue = <<>>
    /\ state = "idle"
    /\ ackd = TRUE
    /\ serialLoop = "none"
    /\ usbLoops = 0
    /\ stopAsked = 0
    /\ pending = FALSE
    /\ enqueued = <<>>
    /\ sent = <<>>
    /\ posts = <<>>
    /\ hq = NoQueueCall
    /\ lastMsg = "init"

\* No stream: the line reader as createLineReader leaves it.
InitNoStream ==
    /\ input = <<>>
    /\ chunks = <<>>
    /\ nread = 0
    /\ buffer = <<>>
    /\ results = <<>>

InitNoTransfer ==
    /\ dataView = <<>>
    /\ parts = <<>>
    /\ updates = <<>>
    /\ decoded = FALSE

Init == InitSession /\ InitNoStream /\ InitNoTransfer

Next ==
    \/ Write
    \/ StartStream
    \/ StopStream
    \/ Connect
    \/ Disconnect
    \/ ReceiveLine
    \/ SerialEnd
    \/ SerialReadError
    \/ UsbTransfer
    \/ UsbTransferError
    \/ WriteSettled

Spec == Init /\ [][Next]_vars

\* A connected session that stays up: the connect succeeds, the line channel
\* neither ends nor fails, and no line reports a state other than idle or
\* collecting.  The device acknowledges a command it has received and not yet
\* acknowledged (ackd false), and the read loop gets to process that line.
ConnectOk == handleConnect("ok")

AckLine == [json |-> TRUE, acknowledge |-> TRUE, evm_state |-> "", register |-> <<>>]

DeviceAck == ~ackd /\ receiveLine(AckLine)

SessionLines == {line \in Lines : line.evm_state # "busy"}

SessionLine == \E line \in SessionLines : receiveLine(line)

NextLive ==
    \/ Write
    \/ StartStream
    \/ StopStream
    \/ ConnectOk
    \/ DeviceAck
    \/ SessionLine
    \/ UsbTransfer
    \/ UsbTransferError
    \/ WriteSettled

SpecLive == Init /\ [][NextLive]_vars /\ WF_vars(DeviceAck)

\* The line reader on every text of the bound, cut into chunks every way.
InitFramer ==
    /\ InitSession
    /\ InitNoTransfer
    /\ input \in Texts
    /\ \E cuts \in SUBSET (1..(MaxStreamLen - 1)) :
          /\ \A c \in cuts : c < Len(input)
          /\ chunks = ChunksOf(input, cuts, 1)
    /\ nread = 0
    /\ buffer = <<>>
    /\ results = <<>>

NextFramer == ReadLine

SpecFramer == InitFramer /\ [][NextFramer]_vars

\* The decoder on every buffer holding one frame [0, reserved, A, N, V].
ByteVals == {0, 1, 128, 255}
ReservedVals == {0, 255}
AddressVals == {0, 5, 255}

Frame(reserved, address, bytes) == <<0, reserved, address, Len(bytes)>> \o bytes

SingleFrames ==
    {Frame(r, a, v) : r \in ReservedVals, a \in AddressVals,
                      v \in UNION {[1..n -> ByteVals] : n \in 0..MaxWidth}}

InitDecoder ==
    /\ InitSession
    /\ InitNoStream
    /\ dataView \in SingleFrames
    /\ parts = <<dataView>>
    /\ updates = <<>>
    /\ decoded = FALSE

NextDecoder == DecodeTransfer

SpecDecoder == InitDecoder /\ [][NextDecoder]_vars

\* The bytes of parts, joined.
RECURSIVE Concat(_)
Concat(ps) == IF ps = <<>> THEN <<>> ELSE Head(ps) \o Concat(Tail(ps))

\* Byte strings over vals of length 0..n.
BytesUpTo(vals, n) == UNION {[1..k -> vals] : k \in 0..n}

\* A record whose sentinel byte is corrupted to a nonzero value.
CorruptedRecords ==
    {<<s, r, a, Len(v)>> \o v : s \in {1, 255}, r \in {0, 255}, a \in {0, 5},
                                v \in BytesUpTo({0, 7}, 1)}

\* The complete well-formed record that follows it.
SecondRecords ==
    {Frame(r, a, v) : r \in {0, 255}, a \in {5, 255}, v \in BytesUpTo({0, 128}, MaxWidth)}

\* The decoder on a corrupted record followed by a well-formed one.
InitResync ==
    /\ InitSession
    /\ InitNoStream
    /\ \E first \in CorruptedRecords, second \in SecondRecords :
          /\ parts = <<first, second>>
          /\ dataView = first \o second
    /\ updates = <<>>
    /\ decoded = FALSE

SpecResync == InitResync /\ [][NextDecoder]_vars

\* Number of complete records ahead of the truncated one.
MaxRecords == 2

CompleteRecords ==
    {Frame(r, 5, v) : r \in {0, 255}, v \in BytesUpTo({0, 128}, 2)}

\* A trailing record cut short: fewer than the 4 header bytes, or a header
\* declaring more value bytes than follow it.
TruncatedRecords ==
    {<<0>>} \cup {<<0, r>> : r \in {0, 255}} \cup {<<0, r, 5>> : r \in {0, 255}}
    \cup UNION {{<<0, r, 5, n>> \o v : r \in {0, 255}, v \in BytesUpTo({0, 128}, n - 1)} :
                    n \in 1..2}

RecordSeqs == UNION {[1..k -> CompleteRecords] : k \in 0..MaxRecords}

\* The decoder on complete records followed by a truncated one.
InitTruncated ==
    /\ InitSession
    /\ InitNoStream
    /\ \E records \in RecordSeqs, partial \in TruncatedRecords :
          /\ parts = records \o <<partial>>
          /\ dataView = Concat(records) \o partial
    /\ updates = <<>>
    /\ decoded = FALSE

SpecTruncated == InitTruncated /\ [][NextDecoder]_vars

\* ------------------------------------------------------------------- claims
\* C1: at most one command is in flight.  Every step that hands a command to
\* the transport is a handleQueue call made with ackd true, it hands over
\* exactly one command, and it leaves ackd false; no send happens in a call
\* made with ackd false.
C1_SendOnlyWhenAcked ==
    [][sent' # sent =>
          /\ hq'.called
          /\ hq'.ackd
          /\ ~ackd'
          /\ Len(sent') = Len(sent) + 1]_vars

\* A second command has gone out, released by a received line.
C1_Witness == lastMsg = "line" /\ hq.did /\ Len(sent) >= 2 /\ ~ackd

\* C2: the commands handed to the transport are enqueued commands, in the
\* order writeCommand enqueued them, each at most once.
C2_FifoOnce ==
    \A i \in 1..Len(sent) :
        /\ sent[i].id \in 1..Len(enqueued)
        /\ enqueued[sent[i].id] = sent[i]
        /\ \A j \in 1..Len(sent) : i < j => sent[i].id < sent[j].id

\* A second command goes out, released by a received line from a backlog of two.
C2_Witness == Len(sent) = 2 /\ lastMsg = "line" /\ hq.did /\ Len(hq.queue) >= 2

PostsOutbound == \E k \in 1..Len(posts) : posts[k][1] = "log" /\ posts[k][2] = "out"

\* The four preconditions of a release, at a handleQueue call.
ReleasePreconditions ==
    hq.ackd /\ Sendable(hq.state) /\ Len(hq.queue) > 0 /\ hq.writer

\* C3: a handleQueue call sends only when ackd is true, state is idle or
\* collecting, the queue is nonempty and the writer is attached, and what it
\* sends is the head of the queue; when a precondition fails the queue, ackd
\* and state are as at the call, nothing is written and nothing is logged as
\* outbound.
C3_ReleaseOrNoOp ==
    hq.called =>
        /\ Len(sent) > hq.sentBefore =>
              /\ ReleasePreconditions
              /\ sent = Append(SubSeq(sent, 1, hq.sentBefore), Head(hq.queue))
        /\ ~ReleasePreconditions =>
              /\ queue = hq.queue
              /\ ackd = hq.ackd
              /\ state = hq.state
              /\ Len(sent) = hq.sentBefore
              /\ ~PostsOutbound

\* A release attempt deferred by the session state alone.
C3_Witness ==
    /\ hq.called /\ hq.writer /\ hq.ackd /\ Len(hq.queue) > 0
    /\ hq.state = "busy"
    /\ ~hq.did

\* C4: while no writer is attached, a step sends nothing, and an enqueue
\* appends its command to the tail of the queue, the entries before it kept.
C4_EnqueueWithoutWriter ==
    [][~serialWriter =>
          /\ sent' = sent
          /\ enqueued' # enqueued =>
                queue' = Append(queue, enqueued'[Len(enqueued')])]_vars

\* A write, a start-stream and a stop-stream queued with no writer attached.
C4_Witness ==
    /\ ~serialWriter
    /\ lastMsg = "stop-stream"
    /\ Len(queue) = 3
    /\ queue[1].text = "cmd" /\ queue[2].text = "start" /\ queue[3].text = "stop 1"
    /\ stopUsbLoop

\* C5: after a successful connect ackd is true, the queue is empty and state
\* is idle.
C5_ConnectResets ==
    (lastMsg = "connect" /\ posts = << <<"status", "Connected">> >>) =>
        (ackd /\ queue = <<>> /\ state = "idle")

\* C6: after a disconnect the queue is empty and ackd is true.
C6_DisconnectClears ==
    lastMsg = "disconnect" => (queue = <<>> /\ ackd)

\* C7: a disconnect handled in a session whose connect succeeded (the line
\* read loop was started) ends the line read loop, detaches the writer and
\* posts the status Disconnected.
C7_DisconnectCompletes ==
    (lastMsg = "disconnect" /\ serialLoop # "none") =>
        /\ serialLoop = "ended"
        /\ ~serialWriter
        /\ posts = << <<"status", "Disconnected">> >>

\* The CRLF delimiters of a text, by position of their CR.
Delims(text) == {i \in 1..(Len(text) - 1) : text[i] = CR /\ text[i + 1] = LF}
NthDelim(text, k) ==
    CHOOSE i \in Delims(text) : Cardinality({j \in Delims(text) : j <= i}) = k
\* The lines a delimiter terminates, and what follows the last delimiter.
TerminatedLines(text) ==
    [k \in 1..Cardinality(Delims(text)) |->
        SubSeq(text, IF k = 1 THEN 1 ELSE NthDelim(text, k - 1) + 2,
               NthDelim(text, k) - 1)]
Remainder(text) ==
    LET n == Cardinality(Delims(text))
    IN  SubSeq(text, IF n = 0 THEN 1 ELSE NthDelim(text, n) + 2, Len(text))
ExpectedLines(text) ==
    TerminatedLines(text) \o (IF Remainder(text) # <<>> THEN <<Remainder(text)>> ELSE <<>>)

LinesReturned ==
    LET got == SelectSeq(results, LAMBDA x : ~x.null)
    IN  [k \in 1..Len(got) |-> got[k].line]

\* C8: whatever the chunking, the lines readLine has returned are the first
\* lines of the whole text, in order, and once it has returned null they are
\* all of them.
C8_LinesOfStream ==
    LET want == ExpectedLines(input)
        got == LinesReturned
    IN  /\ Len(got) <= Len(want)
        /\ \A k \in 1..Len(got) : got[k] = want[k]
        /\ (\E k \in 1..Len(results) : results[k].null) => Len(got) = Len(want)

\* A delimiter split between two chunks, two lines returned, then null.
C8_Witness ==
    /\ \E k \in 1..(Len(chunks) - 1) :
          chunks[k][Len(chunks[k])] = CR /\ chunks[k + 1][1] = LF
    /\ Len(results) = 3
    /\ ~results[1].null /\ ~results[2].null /\ results[3].null

\* C9: once the terminated lines are out, readLine returns the unterminated
\* remainder once if it is nonempty, and null ever after.
C9_RemainderOnce ==
    LET n == Len(TerminatedLines(input))
        rest == Remainder(input)
    IN  \A k \in 1..Len(results) :
            k > n =>
                IF rest # <<>> /\ k = n + 1
                THEN ~results[k].null /\ results[k].line = rest
                ELSE results[k].null

\* A nonempty remainder returned after a terminated line, then null twice.
C9_Witness ==
    /\ Remainder(input) # <<>>
    /\ Len(TerminatedLines(input)) >= 1
    /\ Len(results) = Len(TerminatedLines(input)) + 3
    /\ buffer = <<>>

\* The unsigned big-endian value of at most three bytes.
RECURSIVE BigEndian(_)
BigEndian(bytes) ==
    IF bytes = <<>> THEN 0
    ELSE BigEndian(SubSeq(bytes, 1, Len(bytes) - 1)) * TwoPow8 + bytes[Len(bytes)]
\* The unsigned big-endian value of up to six bytes, as a Number.
UnsignedValue(bytes) ==
    LET n == Len(bytes)
    IN  IF n <= 3 THEN Num(0, BigEndian(bytes))
        ELSE Num(BigEndian(SubSeq(bytes, 1, n - 3)), BigEndian(SubSeq(bytes, n - 2, n)))

\* C10: decoding the single frame [0, reserved, A, N, V as N big-endian
\* bytes] yields exactly the one update {address: A, rawValue: V}.
C10_RoundTrip ==
    decoded =>
        updates = << [address |-> dataView[3],
                      rawValue |-> UnsignedValue(SubSeq(dataView, 5, Len(dataView)))] >>

\* The update of a well-formed record: its address byte and its value bytes
\* as the decoder assembles them.
UpdateOf(record) ==
    [address |-> record[3], rawValue |-> assembleValue(record, 0, record[4])]

UpdatesContain(u) == \E k \in 1..Len(updates) : updates[k] = u

\* C11 as stated: whatever the corrupted first record holds, the output
\* contains the second record's update.
C11_Resync ==
    decoded => UpdatesContain(UpdateOf(parts[2]))

NoZeroAfterSentinel(record) == \A i \in 2..Len(record) : record[i] # 0

\* C11: when no byte of the corrupted first record is 0, the output contains
\* the second record's update.
C11_ResyncNoZeroByte ==
    (decoded /\ NoZeroAfterSentinel(parts[1])) => UpdatesContain(UpdateOf(parts[2]))

\* A five-byte corrupted record without a zero byte is stepped over and the
\* two-byte value of the record after it comes out.
C11_Witness ==
    /\ decoded
    /\ Len(parts) = 2
    /\ parts[1][1] # 0 /\ Len(parts[1]) = 5 /\ NoZeroAfterSentinel(parts[1])
    /\ parts[2][4] = 2
    /\ updates = << [address |-> parts[2][3],
                     rawValue |-> UnsignedValue(SubSeq(parts[2], 5, 6))] >>

\* C12: with a truncated record at the end, the output is exactly the updates
\* of the complete records before it, in buffer order, and nothing for the
\* truncated record.
C12_TruncatedTail ==
    decoded =>
        /\ Len(updates) = Len(parts) - 1
        /\ \A k \in 1..(Len(parts) - 1) :
              updates[k] = [address |-> parts[k][3],
                            rawValue |-> UnsignedValue(SubSeq(parts[k], 5, Len(parts[k])))]

\* Two complete records decoded, then a header declaring two value bytes
\* with one present.
C12_Witness ==
    /\ decoded
    /\ Len(parts) = 3
    /\ Len(parts[3]) = 5 /\ parts[3][4] = 2
    /\ Len(updates) = 2
    /\ updates[2].rawValue = Num(0, 128)

\* The line the most recent readSerialLoop iteration logged.
LoggedLine(ps) == ps[1][3]

RegisterPosts(ps) ==
    {k \in 1..Len(ps) : ps[k][1] = "processed-register-data"}

\* C13: an iteration of the line read loop on a line that does not parse
\* posts no register update, leaves ackd, state and the queue as they were
\* and sends no command.
C13_NonJsonSwallowed ==
    [][(lastMsg' = "line" /\ ~LoggedLine(posts').json) =>
          /\ RegisterPosts(posts') = {}
          /\ ackd' = ackd
          /\ state' = state
          /\ queue' = queue
          /\ sent' = sent]_vars

\* C14: after an iteration on a parsed line, every field of the line has
\* been applied: ackd was true at the release attempt when the line
\* acknowledges, state is the line's state token, and one register event
\* with the line's address and value was posted exactly when the line has a
\* register descriptor.
C14_AllFieldsApplied ==
    (lastMsg = "line" /\ LoggedLine(posts).json) =>
        LET line == LoggedLine(posts)
        IN  /\ line.acknowledge => (hq.called /\ hq.ackd)
            /\ line.evm_state # "" => (state = line.evm_state /\ hq.state = line.evm_state)
            /\ line.register # <<>> =>
                  /\ RegisterPosts(posts) = {2}
                  /\ posts[2] = <<"processed-register-data", line.register[1], line.register[2]>>
            /\ line.register = <<>> => RegisterPosts(posts) = {}

\* A line carrying all three fields, received when ackd was false and the
\* state idle, has set the state, posted the register event and released the
\* queued command.
C14_Witness ==
    /\ lastMsg = "line"
    /\ LoggedLine(posts).acknowledge
    /\ LoggedLine(posts).evm_state = "collecting"
    /\ LoggedLine(posts).register = <<3, 42>>
    /\ state = "collecting"
    /\ posts[2] = <<"processed-register-data", 3, 42>>
    /\ hq.did
    /\ ~ackd

\* C15: a stop-stream step sets stopUsbLoop and appends "stop 1" behind the
\* queued commands; it sends nothing while ackd is false or the state is not
\* sendable, and a "stop 1" command is handed to the writer only by a release
\* attempt made with ackd true, a sendable state and that command at the head
\* of the queue.
C15_StopThroughQueue ==
    [][/\ (lastMsg' = "stop-stream" /\ enqueued' # enqueued) =>
            LET c == enqueued'[Len(enqueued')]
            IN  /\ stopUsbLoop'
                /\ c.text = "stop 1"
                /\ hq'.called /\ hq'.queue = Append(queue, c)
                /\ (~ackd \/ ~Sendable(state)) =>
                       (sent' = sent /\ queue' = Append(queue, c))
       /\ (Len(sent') > Len(sent) /\ sent'[Len(sent')].text = "stop 1") =>
            /\ sent' = Append(sent, Head(hq'.queue))
            /\ hq'.ackd /\ Sendable(hq'.state) /\ hq'.writer]_vars

\* A stop command that waited behind an unacknowledged command and was sent
\* by the release attempt of a later line.
C15_Witness ==
    /\ lastMsg = "line"
    /\ hq.did
    /\ Len(sent) >= 2
    /\ sent[Len(sent)].text = "stop 1"
    /\ stopUsbLoop

\* C16: a readUsbLoop task that was awaiting a transfer when stopUsbLoop was
\* set ends when that transfer settles.
C16_StoppedLoopEnds ==
    [][stopAsked' < stopAsked => usbLoops' < usbLoops]_vars

\* C17: whenever the line read loop awaits the next line, no write started by
\* its release attempts is still pending.
C17_LineFullyProcessed ==
    serialLoop = "running" => ~pending

\* C19: in a connected session at most one readUsbLoop task is awaiting a
\* transfer on the endpoint.
C19_OneUsbLoop ==
    (serialLoop = "running" /\ usbDevice = "open") => usbLoops <= 1

\* C20: after a connect attempt that posted the error status, with no line
\* read loop started, no writer is attached.
C20_FailedConnectDetached ==
    (lastMsg = "connect" /\ posts = ConnectError /\ serialLoop = "none") => ~serialWriter

WasSent(k) == \E i \in 1..Len(sent) : sent[i].id = k

\* C18: in a connected session that stays up, with the device acknowledging
\* every command it receives, the k-th command enqueued is eventually sent.
C18_QueueLiveness ==
    \A k \in 1..MaxCmds :
        (serialLoop = "running" /\ Len(enqueued) >= k) ~> WasSent(k)

====
